---- MODULE Spec2Model ----
(***************************************************************************)
(* Scheduled publication engine of postfarm:                               *)
(*   backend/app/services/scheduler_service.py  (SchedulerService)         *)
(*   backend/app/routers/scheduler.py           (schedule_post, cancel_post)*)
(*                                                                         *)
(* The event loop runs one coroutine at a time; the SQLAlchemy calls of the *)
(* service and of the routers are synchronous, so a coroutine gives up the  *)
(* loop only at `await self.platform_service.publish_post(...)`.  Each      *)
(* action below is one such uninterrupted stretch of code.                  *)
(*                                                                         *)
(* stop() is scheduler.shutdown(): the memory job store drops its jobs and   *)
(* the asyncio executor cancels the coroutines it still runs, so nothing of *)
(* the scheduler survives a stop; the rows of the stores do.                *)
(*                                                                         *)
(* Spec is the running service.  SpecLifecycle adds the start() and stop()   *)
(* calls that find nothing to do, SpecStorageFaults a failing reconciler    *)
(* query, SpecJobStore calls schedule_post and unschedule_post directly,    *)
(* and SpecOAuth is backend/app/routers/oauth.py (initiate_oauth,           *)
(* oauth_callback) over the oauth_states and user_secrets tables.           *)
(* SpecTimers is the running service with a second timer registered for a   *)
(* post, SpecLive the service from its start under fair scheduling.         *)
(*                                                                         *)
(* The other services each have a specification of their own:               *)
(*   SpecDrafts  backend/app/database_supabase.py  (DraftRepository)        *)
(*   SpecLlama   backend/app/services/llama_server_manager.py               *)
(*   SpecSync    backend/app/routers/sync.py       (sync_push)              *)
(*   SpecCache   backend/app/services/llm_service.py (response cache)       *)
(*                                                                         *)
(* Time is in seconds.  A job id "post_{id}_{k}" is the tuple               *)
(* <<"post", id, k>>; the id "post_{id}" that unschedule_post builds is the *)
(* tuple <<"post", id>>.  An error_message is <<kind, n, delay>>.           *)
(***************************************************************************)
EXTENDS Integers, Sequences, FiniteSets, TLC

\* ---------------------------------------------------------------- bounds
MaxPosts == 2           \* post ids handed out by each store
MaxTime == 5100         \* the clock stops advancing here
MaxRestarts == 1        \* stop()/start() cycles after the first start
ScheduleWindow == 0     \* schedule requests are made up to this instant

\* ------------------------------------------------------ program constants
max_retries == 3
retry_delays == <<300, 900, 3600>>

\* granularity of the clock and of the requested schedule offsets
TickStep == retry_delays[1]
ScheduleOffsets == {0, TickStep}

\* ------------------------------------------------------------------ data
SqliteIds == 1..MaxPosts                     \* INTEGER PRIMARY KEY values
SupabaseIds == {100 + i : i \in 1..MaxPosts} \* UUID strings, opaque tokens
PostIds == SqliteIds \cup SupabaseIds

NoTime == -1
NoMessage == <<"none", 0, 0>>

\* a row that does not exist
NoPost == [status |-> "absent", scheduled_time |-> NoTime, posted_at |-> NoTime,
           error_message |-> NoMessage]

\* ScheduledPost(... status=PostStatus.SCHEDULED) as the routers create it
NewPost(scheduled_dt) ==
    [status |-> "scheduled", scheduled_time |-> scheduled_dt, posted_at |-> NoTime,
     error_message |-> NoMessage]

Min(a, b) == IF a < b THEN a ELSE b

VARIABLES
    use_supabase,   \* settings.USE_SUPABASE, fixed for the life of the deployment
    is_running,     \* SchedulerService.is_running
    load_pending,   \* the task created by asyncio.create_task(_load_scheduled_posts());
                    \* the loop runs it before any request or timer callback
    now,            \* datetime.now(timezone.utc)
    db,             \* SQLite table scheduled_posts: id -> row (or NoPost)
    supabase,       \* Supabase table scheduled_posts: id -> row (or NoPost)
    jobs,           \* the AsyncIOScheduler's memory job store
    callbacks,      \* _publish_post coroutines suspended in publish_post, each with
                    \* the row it loaded and the run_date of the job that started it
    restarts,       \* number of stop() calls so far
    attempts,       \* history: publish_post calls made per post id
    retry_jobs,     \* history: jobs registered by the retry branch per post id
    streak,         \* history: failed attempts since the last job with retry_count 0
    published,      \* history: publish_post calls that returned, per post id
    last,           \* history: the operation that produced this state
    oauth_states,   \* Supabase table oauth_states: state -> row (or NoState)
    issued,         \* number of state strings initiate_oauth has generated
    user_secrets,   \* Supabase table user_secrets: <<user_id, secret_type>> -> secret
    oauth_pending,  \* oauth_callback coroutines suspended in the token exchange
    exchanges,      \* history: token exchanges started, per state
    stores,         \* history: _store_oauth_tokens calls, per state
    drafts,         \* Supabase table drafts: id -> row (or NoDraft)
    draft_updates,  \* DraftRepository.update calls between their two requests
    process,        \* LlamaServerManager.process: "none", "running" or "exited"
    model_name,     \* LlamaServerManager.model_name
    restart_history,    \* LlamaServerManager.restart_history
    monitor_task,   \* a _monitor_health task exists and is not done
    restart_attempts,   \* history: the instants of all auto-restart attempts
    monitor_cycles, \* history: health checks made
    changes,        \* sync_push: request.changes
    results,        \* sync_push: results
    success_count,  \* sync_push: success_count
    conflict_count, \* sync_push: conflict_count
    error_count,    \* sync_push: error_count
    cache,          \* LLMService._cache, in insertion order: [key, expiry_time]
    cache_sets,     \* history: number of calls of _set_cached_content
    cache_expired   \* history: number of entries _get_cached_content removed

\* the state of the OAuth router
oauth_vars == <<oauth_states, issued, user_secrets, oauth_pending, exchanges, stores>>

\* the state of the draft repository, of the llama.cpp server manager, of a
\* sync_push request and of the LLM response cache
draft_vars == <<drafts, draft_updates>>
llama_vars == <<process, model_name, restart_history, monitor_task, restart_attempts,
                monitor_cycles>>
sync_vars == <<changes, results, success_count, conflict_count, error_count>>
cache_vars == <<cache, cache_sets, cache_expired>>
service_vars == <<draft_vars, llama_vars, sync_vars, cache_vars>>

vars == <<use_supabase, is_running, load_pending, now, db, supabase, jobs, callbacks,
          restarts, attempts, retry_jobs, streak, published, last, oauth_vars,
          service_vars>>

NoOp == [op |-> "init", id |-> 0, rc |-> 0, result |-> "ok"]
Op(name, id, rc, result) == [op |-> name, id |-> id, rc |-> rc, result |-> result]

\* ------------------------------------------------------- the job scheduler
JobId(post_id, retry_count) == <<"post", post_id, retry_count>>

\* variant: a job whose id is taken is stored next to the old one
add_job_NoReplace(js, job) == js \cup {job}

\* scheduler.add_job(..., id=..., replace_existing=True)
add_job(js, job) == {j \in js : j.id # job.id} \cup {job}

\* scheduler.remove_job(job_id): raises JobLookupError when no job has that id
remove_job_raises(js, job_id) == ~\E j \in js : j.id = job_id
remove_job(js, job_id) == {j \in js : j.id # job_id}

\* SchedulerService.schedule_post(post, retry_count)
schedule_post(js, post_id, scheduled_time, retry_count) ==
    add_job(js, [id |-> JobId(post_id, retry_count),
                 run_date |-> scheduled_time,
                 args |-> <<post_id, retry_count>>])

\* SchedulerService.unschedule_post(post_id): the exception is swallowed
unschedule_post(js, post_id) ==
    LET job_id == <<"post", post_id>>
    IN  IF remove_job_raises(js, job_id) THEN js ELSE remove_job(js, job_id)

\* except Exception as e: ... pass
except_Exception == TRUE

\* variant: JobLookupError leaves unschedule_post
unschedule_post_raises_Uncaught(js, post_id) == remove_job_raises(js, <<"post", post_id>>)

\* whether a call of unschedule_post raises
unschedule_post_raises(js, post_id) ==
    remove_job_raises(js, <<"post", post_id>>) /\ ~except_Exception

\* the ids of the store the deployment uses
StoreIds == IF use_supabase THEN SupabaseIds ELSE SqliteIds

JobsOf(js, post_id) == {j \in js : j.args[1] = post_id}

\* ------------------------------------------------------------ OAuth data
MaxOAuthStates == 2     \* state strings initiate_oauth hands out
OAuthTicks == 1         \* clock steps of the OAuth specification

ttl_seconds == 600

\* the shortest time after which a state issued now has expired
OAuthTickStep == ttl_seconds + 1

StateTokens == 1..MaxOAuthStates       \* secrets.token_urlsafe(32), never repeated
UnknownState == 0                      \* a state string that was never issued
Users == {"user_a", "user_b"}
SupportedPlatforms == {"twitter", "linkedin"}
RequestPlatforms == {"Twitter", "linkedin", "mastodon"}   \* initiate requests
CallbackPlatforms == {"Twitter", "linkedin"}              \* callback requests

\* a row that does not exist
NoState == [user_id |-> "none", platform |-> "none", code_verifier |-> <<>>,
            expires_at |-> NoTime]
NoSecret == "none"

\* no OAuth flow has been started
InitOAuthTables ==
    /\ oauth_states = [s \in StateTokens |-> NoState]
    /\ issued = 0
    /\ user_secrets = [k \in Users \X SupportedPlatforms |-> NoSecret]
    /\ oauth_pending = {}
    /\ exchanges = [s \in StateTokens |-> 0]
    /\ stores = [s \in StateTokens |-> 0]

\* ------------------------------------------------- the other services
MaxDrafts == 1          \* draft ids
NoDraft == [content |-> <<>>, updated_at |-> NoTime]
DraftIds == 1..MaxDrafts

\* no draft is stored, no llama.cpp server was started, no sync request is being
\* served and nothing is cached
InitServices ==
    /\ drafts = [d \in DraftIds |-> NoDraft]
    /\ draft_updates = {}
    /\ process = "none"
    /\ model_name = "none"
    /\ restart_history = <<>>
    /\ monitor_task = FALSE
    /\ restart_attempts = {}
    /\ monitor_cycles = 0
    /\ changes = <<>>
    /\ results = <<>>
    /\ success_count = 0
    /\ conflict_count = 0
    /\ error_count = 0
    /\ cache = <<>>
    /\ cache_sets = 0
    /\ cache_expired = 0

\* ------------------------------------------------------------------ Init
Init ==
    /\ use_supabase \in BOOLEAN
    /\ is_running = FALSE
    /\ load_pending = FALSE
    /\ now = 0
    /\ db = [i \in SqliteIds |-> NoPost]
    /\ supabase = [i \in SupabaseIds |-> NoPost]
    /\ jobs = {}
    /\ callbacks = {}
    /\ restarts = 0
    /\ attempts = [i \in PostIds |-> 0]
    /\ retry_jobs = [i \in PostIds |-> 0]
    /\ streak = [i \in PostIds |-> 0]
    /\ published = [i \in PostIds |-> 0]
    /\ last = NoOp
    /\ InitOAuthTables
    /\ InitServices

\* ------------------------------------------------------------- lifecycle
\* SchedulerService.start()
Start ==
    /\ ~is_running
    /\ is_running' = TRUE
    /\ load_pending' = TRUE
    /\ last' = Op("start", 0, 0, "ok")
    /\ UNCHANGED <<use_supabase, now, db, supabase, jobs, callbacks, restarts,
                   attempts, retry_jobs, streak, published, oauth_vars,
                   service_vars>>

\* variant: the job store keeps its jobs
shutdown_KeepsJobs(js) == js

\* variant: the job store keeps the jobs of the retry generations
shutdown_KeepsRetryJobs(js) == {j \in js : j.args[2] > 0}

\* self.scheduler.shutdown(): the memory job store removes all its jobs
shutdown(js) == {}

\* SchedulerService.stop(): scheduler.shutdown() empties the memory job store and
\* cancels the coroutines its executor is running; the process then ends
Stop ==
    /\ is_running
    /\ ~load_pending
    /\ restarts < MaxRestarts
    /\ is_running' = FALSE
    /\ load_pending' = FALSE
    /\ jobs' = shutdown(jobs)
    /\ callbacks' = {}
    /\ restarts' = restarts + 1
    /\ last' = Op("stop", 0, 0, "ok")
    /\ UNCHANGED <<use_supabase, now, db, supabase, attempts, retry_jobs, streak,
                   published, oauth_vars,
                   service_vars>>

\* the smallest element of a non-empty set of times
RECURSIVE MinOf(_)
MinOf(ts) ==
    LET t == CHOOSE x \in ts : TRUE
    IN  IF ts = {t} THEN t ELSE Min(t, MinOf(ts \ {t}))

\* the instants after t at which something is due: the fire time of a pending timer
\* and the scheduled_time of a persisted post that still waits for publication
DueTimes(t) ==
    {j.run_date : j \in jobs}
    \cup {db[i].scheduled_time : i \in {k \in SqliteIds : db[k].status = "scheduled"}}
    \cup {supabase[i].scheduled_time :
              i \in {k \in SupabaseIds : supabase[k].status = "scheduled"}}

\* the clock: it moves to the next due instant, or by one step while schedule
\* requests are still accepted; a due job is run, and a publish call returns,
\* before it moves on
Tick ==
    /\ ~load_pending
    /\ ~\E j \in jobs : j.run_date <= now
    /\ callbacks = {}
    /\ LET due == {t \in DueTimes(now) : t > now}
       IN  /\ due # {} \/ now < ScheduleWindow
           /\ now' = IF due = {} THEN now + TickStep ELSE MinOf(due)
    /\ now' <= MaxTime
    /\ last' = Op("tick", 0, 0, "ok")
    /\ UNCHANGED <<use_supabase, is_running, load_pending, db, supabase, jobs,
                   callbacks, restarts, attempts, retry_jobs, streak, published,
                   oauth_vars,
                   service_vars>>

\* ------------------------------------------------------------- storage
\* select(ScheduledPost).where(ScheduledPost.id == post_id).scalar_one_or_none()
find_post(table, post_id) ==
    IF post_id \in DOMAIN table THEN table[post_id] ELSE NoPost

\* variant: nothing is written
Commit_Nothing(table, post_id, loaded, current) == table

\* db.commit(): the UPDATE carries the attributes whose session value differs from
\* the value the session loaded; the other columns of the row are left as they are
Commit(table, post_id, loaded, current) ==
    [table EXCEPT ![post_id] =
        [f \in DOMAIN current |->
            IF current[f] # loaded[f] THEN current[f] ELSE table[post_id][f]]]

\* the ids of a table in ascending order, as a sequence
RECURSIVE IdSeq(_, _)
IdSeq(ids, acc) ==
    IF ids = {} THEN acc
    ELSE LET m == CHOOSE x \in ids : \A y \in ids : x <= y
         IN  IdSeq(ids \ {m}, Append(acc, m))

\* scheduled_dt.isoformat() and datetime.fromisoformat(s.replace("Z", "+00:00"))
isoformat(t) == <<t, "+00:00">>
replace_Z(s) == IF s[2] = "Z" THEN <<s[1], "+00:00">> ELSE s
fromisoformat(s) == s[1]

\* ScheduledPostRepository.get_all_scheduled(): .eq("status", "scheduled")
get_all_scheduled(table) ==
    SelectSeq(IdSeq(DOMAIN table, <<>>), LAMBDA i : table[i].status = "scheduled")

\* variant: the query keeps a post whose scheduled_time is the current instant
select_scheduled_future_Inclusive(table, t) ==
    SelectSeq(IdSeq(DOMAIN table, <<>>),
              LAMBDA i : table[i].status = "scheduled" /\ table[i].scheduled_time >= t)

\* the SQLite query of _load_scheduled_posts
select_scheduled_future(table, t) ==
    SelectSeq(IdSeq(DOMAIN table, <<>>),
              LAMBDA i : table[i].status = "scheduled" /\ table[i].scheduled_time > t)

\* --------------------------------------------------- startup reconciler
\* for post in posts: self.schedule_post(post, retry_count=0)
RECURSIVE LoadSqlite(_, _, _)
LoadSqlite(js, table, posts) ==
    IF posts = <<>> THEN js
    ELSE LoadSqlite(schedule_post(js, Head(posts), table[Head(posts)].scheduled_time, 0),
                    table, Tail(posts))

\* for post_dict in posts_data: if scheduled_dt > now: self.schedule_post(post_data, 0)
RECURSIVE LoadSupabase(_, _, _, _)
LoadSupabase(js, table, posts_data, t) ==
    IF posts_data = <<>> THEN js
    ELSE LET post_dict == table[Head(posts_data)]
             scheduled_dt == fromisoformat(replace_Z(isoformat(post_dict.scheduled_time)))
             js1 == IF scheduled_dt > t
                    THEN schedule_post(js, Head(posts_data), scheduled_dt, 0)
                    ELSE js
         IN  LoadSupabase(js1, table, Tail(posts_data), t)

\* ids whose job with retry_count 0 a reconciler run (re)registers
Reconciled(js0, js1) == {j.args[1] : j \in {k \in js1 : k.args[2] = 0 /\ k \notin js0}}

\* SchedulerService._load_scheduled_posts()
LoadScheduledPosts ==
    /\ is_running
    /\ load_pending
    /\ load_pending' = FALSE
    /\ jobs' = IF use_supabase
               THEN LoadSupabase(jobs, supabase, get_all_scheduled(supabase), now)
               ELSE LoadSqlite(jobs, db, select_scheduled_future(db, now))
    /\ streak' = [i \in PostIds |-> IF i \in Reconciled(jobs, jobs') THEN 0 ELSE streak[i]]
    /\ last' = Op("load", 0, 0, "ok")
    /\ UNCHANGED <<use_supabase, is_running, now, db, supabase, callbacks, restarts,
                   attempts, retry_jobs, published, oauth_vars,
                   service_vars>>

\* ---------------------------------------------------------------- routers
NextId(table) ==
    LET used == {i \in DOMAIN table : table[i] # NoPost}
        free == DOMAIN table \ used
    IN  IF free = {} THEN 0 ELSE CHOOSE x \in free : \A y \in free : x <= y

\* routers/scheduler.py schedule_post: POST /schedule
SchedulePostRequest(offset) ==
    /\ is_running
    /\ ~load_pending
    /\ now <= ScheduleWindow
    /\ LET scheduled_dt == now + offset
       IN  IF scheduled_dt <= now
           THEN /\ last' = Op("schedule", 0, 0, "400")
                /\ UNCHANGED <<db, supabase, jobs, streak>>
           ELSE IF use_supabase
           THEN LET id == NextId(supabase)
                IN  /\ id # 0
                    /\ supabase' = [supabase EXCEPT ![id] = NewPost(scheduled_dt)]
                    /\ last' = Op("schedule", id, 0, "201")
                    /\ UNCHANGED <<db, jobs, streak>>
           ELSE LET id == NextId(db)
                IN  /\ id # 0
                    /\ db' = [db EXCEPT ![id] = NewPost(scheduled_dt)]
                    /\ jobs' = schedule_post(jobs, id, db'[id].scheduled_time, 0)
                    /\ streak' = [streak EXCEPT ![id] = 0]
                    /\ last' = Op("schedule", id, 0, "201")
                    /\ UNCHANGED supabase
    /\ UNCHANGED <<use_supabase, is_running, load_pending, now, callbacks, restarts,
                   attempts, retry_jobs, published, oauth_vars,
                   service_vars>>

\* variant: only a posted post is refused
CancelAllowed_NotPosted(post) == post.status # "posted"

\* if post.status != PostStatus.SCHEDULED: raise HTTPException(status_code=400)
CancelAllowed(post) == post.status = "scheduled"

\* routers/scheduler.py cancel_post: POST /{post_id}/cancel
CancelPost(post_id) ==
    /\ is_running
    /\ ~load_pending
    /\ IF use_supabase
       THEN LET post == find_post(supabase, post_id)
            IN  IF post = NoPost
                THEN /\ last' = Op("cancel", post_id, 0, "404")
                     /\ UNCHANGED <<db, supabase, jobs>>
                ELSE IF ~CancelAllowed(post)
                THEN /\ last' = Op("cancel", post_id, 0, "400")
                     /\ UNCHANGED <<db, supabase, jobs>>
                ELSE /\ supabase' = [supabase EXCEPT ![post_id].status = "cancelled"]
                     /\ last' = Op("cancel", post_id, 0, "200")
                     /\ UNCHANGED <<db, jobs>>
       ELSE LET post == find_post(db, post_id)
            IN  IF post = NoPost
                THEN /\ last' = Op("cancel", post_id, 0, "404")
                     /\ UNCHANGED <<db, supabase, jobs>>
                ELSE IF ~CancelAllowed(post)
                THEN /\ last' = Op("cancel", post_id, 0, "400")
                     /\ UNCHANGED <<db, supabase, jobs>>
                ELSE /\ db' = Commit(db, post_id, post, [post EXCEPT !.status = "cancelled"])
                     /\ jobs' = unschedule_post(jobs, post_id)
                     /\ last' = Op("cancel", post_id, 0,
                                   IF unschedule_post_raises(jobs, post_id)
                                   THEN "500" ELSE "200")
                     /\ UNCHANGED supabase
    /\ UNCHANGED <<use_supabase, is_running, load_pending, now, callbacks, restarts,
                   attempts, retry_jobs, streak, published, oauth_vars,
                   service_vars>>

\* ------------------------------------------------------------ fire handler
\* variant: the guard stops a posted row only
StatusGuardPasses_PostedOnly(post) == post.status # "posted"

\* the status guard of _publish_post
StatusGuardPasses(post) == post.status = "scheduled" \/ post.status = "failed"

\* variant: a missing row is handed on to the status guard
not_found_Never(post) == FALSE

\* if not post: logger.error(f"Post {post_id} not found"); return
not_found(post) == post = NoPost

\* a due job leaves the job store and _publish_post runs up to its await
PublishPostBegin(job) ==
    /\ is_running
    /\ ~load_pending
    /\ job \in jobs
    /\ job.run_date <= now
    /\ jobs' = jobs \ {job}
    /\ LET post_id == job.args[1]
           retry_count == job.args[2]
           post == find_post(db, post_id)
       IN  IF not_found(post)
           THEN /\ last' = Op("fire", post_id, retry_count, "not_found")
                /\ UNCHANGED <<callbacks, attempts>>
           ELSE IF ~StatusGuardPasses(post)
           THEN /\ last' = Op("fire", post_id, retry_count, "skipped")
                /\ UNCHANGED <<callbacks, attempts>>
           ELSE /\ callbacks' = callbacks \cup
                       {[post_id |-> post_id, retry_count |-> retry_count, post |-> post,
                         run_date |-> job.run_date]}
                /\ attempts' = [attempts EXCEPT ![post_id] = @ + 1]
                /\ last' = Op("fire", post_id, retry_count, "publishing")
    /\ UNCHANGED <<use_supabase, is_running, load_pending, now, db, supabase, restarts,
                   retry_jobs, streak, published, oauth_vars,
                   service_vars>>

\* variant: posted_at is left as it was
posted_row_NoPostedAt(post, t) ==
    [post EXCEPT !.status = "posted", !.error_message = NoMessage]

\* variant: the previous error_message is kept
posted_row_KeepsError(post, t) == [post EXCEPT !.status = "posted", !.posted_at = t]

\* post.status = POSTED; post.posted_at = now; post.error_message = None
posted_row(post, t) ==
    [post EXCEPT !.status = "posted", !.posted_at = t, !.error_message = NoMessage]

\* publish_post returned: the row is updated and committed
PublishPostSucceeds(cb) ==
    /\ cb \in callbacks
    /\ callbacks' = callbacks \ {cb}
    /\ db' = Commit(db, cb.post_id, cb.post, posted_row(cb.post, now))
    /\ published' = [published EXCEPT ![cb.post_id] = @ + 1]
    /\ last' = Op("posted", cb.post_id, cb.retry_count, "ok")
    /\ UNCHANGED <<use_supabase, is_running, load_pending, now, supabase, jobs, restarts,
                   attempts, retry_jobs, streak, oauth_vars,
                   service_vars>>

\* variant: the table is read one entry too far
RetryDelay_OffByOne(retry_count) ==
    retry_delays[Min(retry_count + 1, Len(retry_delays) - 1) + 1]

\* self.retry_delays[min(retry_count, len(self.retry_delays) - 1)], 0-based
RetryDelay(retry_count) == retry_delays[Min(retry_count, Len(retry_delays) - 1) + 1]

\* variant: one more retry is granted
ShouldRetry_Inclusive(retry_count) == retry_count <= max_retries

\* if retry_count < self.max_retries
ShouldRetry(retry_count) == retry_count < max_retries

\* variant: the delay is subtracted
retry_time_Backward(t, delay_seconds) == t - delay_seconds

\* retry_time = datetime.now(timezone.utc) + timedelta(seconds=delay_seconds)
retry_time(t, delay_seconds) == t + delay_seconds

\* publish_post raised: the retry policy
PublishPostFails(cb) ==
    /\ cb \in callbacks
    /\ callbacks' = callbacks \ {cb}
    /\ streak' = [streak EXCEPT ![cb.post_id] = @ + 1]
    /\ IF ShouldRetry(cb.retry_count)
       THEN LET delay_seconds == RetryDelay(cb.retry_count)
                post == [cb.post EXCEPT
                           !.status = "scheduled",
                           !.error_message = <<"attempt", cb.retry_count + 1, delay_seconds>>,
                           !.scheduled_time = retry_time(now, delay_seconds)]
            IN  /\ db' = Commit(db, cb.post_id, cb.post, post)
                /\ jobs' = schedule_post(jobs, cb.post_id, db'[cb.post_id].scheduled_time,
                                         cb.retry_count + 1)
                /\ retry_jobs' = [retry_jobs EXCEPT ![cb.post_id] = @ + 1]
                /\ last' = Op("retry", cb.post_id, cb.retry_count, "ok")
       ELSE LET post == [cb.post EXCEPT
                           !.status = "failed",
                           !.error_message = <<"failed_after", max_retries, 0>>]
            IN  /\ db' = Commit(db, cb.post_id, cb.post, post)
                /\ last' = Op("failed", cb.post_id, cb.retry_count, "ok")
                /\ UNCHANGED <<jobs, retry_jobs>>
    /\ UNCHANGED <<use_supabase, is_running, load_pending, now, supabase, restarts,
                   attempts, published, oauth_vars,
                   service_vars>>

Next ==
    \/ Start
    \/ Stop
    \/ Tick
    \/ LoadScheduledPosts
    \/ \E offset \in ScheduleOffsets : SchedulePostRequest(offset)
    \/ \E post_id \in StoreIds : CancelPost(post_id)
    \/ \E job \in jobs : PublishPostBegin(job)
    \/ \E cb \in callbacks : PublishPostSucceeds(cb)
    \/ \E cb \in callbacks : PublishPostFails(cb)

Spec == Init /\ [][Next]_vars

\* ------------------------------------------------ storage that can fail
\* the Supabase branch of _load_scheduled_posts is wrapped in try/except Exception,
\* the SQLite branch in try/finally
load_error_caught == use_supabase

\* _load_scheduled_posts() when its query raises (repo.get_all_scheduled() or
\* db.execute(select(...))): nothing is registered; the exception is logged and the
\* coroutine returns, or it leaves the coroutine and ends the task start() created
LoadScheduledPostsQueryFails ==
    /\ is_running
    /\ load_pending
    /\ load_pending' = FALSE
    /\ last' = Op("load_failed", 0, 0, IF load_error_caught THEN "returned" ELSE "raised")
    /\ UNCHANGED <<use_supabase, is_running, now, db, supabase, jobs, callbacks, restarts,
                   attempts, retry_jobs, streak, published, oauth_vars,
                   service_vars>>

\* publish_post returned and the db.commit() that follows raises.  The commit is
\* inside the try whose `except Exception` is the retry policy, so the policy runs
\* with the commit error as error_msg.  The failed commit rolled the session back
\* and expired the loaded row, so the UPDATE of the second commit carries exactly
\* the columns the policy assigns.  The second commit succeeds (the fault was
\* transient) or raises too and the exception leaves the callback.
PublishPostCommitFails(cb, second_commit_ok) ==
    /\ cb \in callbacks
    /\ callbacks' = callbacks \ {cb}
    /\ published' = [published EXCEPT ![cb.post_id] = @ + 1]
    /\ streak' = [streak EXCEPT ![cb.post_id] = @ + 1]
    /\ IF ~second_commit_ok
       THEN /\ last' = Op("commit_failed", cb.post_id, cb.retry_count, "raised")
            /\ UNCHANGED <<db, jobs, retry_jobs>>
       ELSE IF ShouldRetry(cb.retry_count)
       THEN LET delay_seconds == RetryDelay(cb.retry_count)
            IN  /\ db' = [db EXCEPT
                            ![cb.post_id].status = "scheduled",
                            ![cb.post_id].error_message =
                                <<"attempt", cb.retry_count + 1, delay_seconds>>,
                            ![cb.post_id].scheduled_time = retry_time(now, delay_seconds)]
                /\ jobs' = schedule_post(jobs, cb.post_id, db'[cb.post_id].scheduled_time,
                                         cb.retry_count + 1)
                /\ retry_jobs' = [retry_jobs EXCEPT ![cb.post_id] = @ + 1]
                /\ last' = Op("commit_failed", cb.post_id, cb.retry_count, "retry")
       ELSE /\ db' = [db EXCEPT
                        ![cb.post_id].status = "failed",
                        ![cb.post_id].error_message = <<"failed_after", max_retries, 0>>]
            /\ last' = Op("commit_failed", cb.post_id, cb.retry_count, "failed")
            /\ UNCHANGED <<jobs, retry_jobs>>
    /\ UNCHANGED <<use_supabase, is_running, load_pending, now, supabase, restarts,
                   attempts, oauth_vars,
                   service_vars>>

NextStorageFaults ==
    \/ Next
    \/ LoadScheduledPostsQueryFails
    \/ \E cb \in callbacks : \E second_commit_ok \in BOOLEAN :
          PublishPostCommitFails(cb, second_commit_ok)

SpecStorageFaults == Init /\ [][NextStorageFaults]_vars

\* ------------------------------------------ lifecycle calls without effect
\* start() while is_running: the body of `if not self.is_running` is skipped
StartWhileRunning ==
    /\ is_running
    /\ last' = Op("start", 0, 0, "noop")
    /\ UNCHANGED <<use_supabase, is_running, load_pending, now, db, supabase, jobs,
                   callbacks, restarts, attempts, retry_jobs, streak, published,
                   oauth_vars,
                   service_vars>>

\* stop() while not is_running: the body of `if self.is_running` is skipped
StopWhileStopped ==
    /\ ~is_running
    /\ last' = Op("stop", 0, 0, "noop")
    /\ UNCHANGED <<use_supabase, is_running, load_pending, now, db, supabase, jobs,
                   callbacks, restarts, attempts, retry_jobs, streak, published,
                   oauth_vars,
                   service_vars>>

NextLifecycle ==
    \/ Next
    \/ StartWhileRunning
    \/ StopWhileStopped

SpecLifecycle == Init /\ [][NextLifecycle]_vars

\* ------------------------------------------- the job store, called directly
\* schedule_post and unschedule_post as functions of their arguments: the calls are
\* made in any order, with any post object and retry_count
JobStoreTimes == {TickStep, TickStep + TickStep}
JobStoreRetryCounts == {0, 1}

InitJobStore ==
    /\ use_supabase = FALSE
    /\ is_running = TRUE
    /\ load_pending = FALSE
    /\ now = 0
    /\ db = [i \in SqliteIds |-> NoPost]
    /\ supabase = [i \in SupabaseIds |-> NoPost]
    /\ jobs = {}
    /\ callbacks = {}
    /\ restarts = 0
    /\ attempts = [i \in PostIds |-> 0]
    /\ retry_jobs = [i \in PostIds |-> 0]
    /\ streak = [i \in PostIds |-> 0]
    /\ published = [i \in PostIds |-> 0]
    /\ last = NoOp
    /\ InitOAuthTables
    /\ InitServices

\* scheduler_service.schedule_post(post, retry_count); the post passed is kept as
\* the row db[post.id]
SchedulePostCall(post_id, scheduled_time, retry_count) ==
    /\ db' = [db EXCEPT ![post_id] = NewPost(scheduled_time)]
    /\ jobs' = schedule_post(jobs, post_id, db'[post_id].scheduled_time, retry_count)
    /\ last' = Op("schedule_post", post_id, retry_count,
                  IF \E j \in jobs : j.id = JobId(post_id, retry_count)
                  THEN "replaced" ELSE "added")
    /\ UNCHANGED <<use_supabase, is_running, load_pending, now, supabase, callbacks,
                   restarts, attempts, retry_jobs, streak, published, oauth_vars,
                   service_vars>>

\* scheduler_service.unschedule_post(post_id)
UnschedulePostCall(post_id) ==
    /\ jobs' = unschedule_post(jobs, post_id)
    /\ last' = Op("unschedule_post", post_id, 0,
                  IF unschedule_post_raises(jobs, post_id) THEN "raised" ELSE "ok")
    /\ UNCHANGED <<use_supabase, is_running, load_pending, now, db, supabase, callbacks,
                   restarts, attempts, retry_jobs, streak, published, oauth_vars,
                   service_vars>>

NextJobStore ==
    \/ \E post_id \in SqliteIds : \E scheduled_time \in JobStoreTimes :
          \E retry_count \in JobStoreRetryCounts :
             SchedulePostCall(post_id, scheduled_time, retry_count)
    \/ \E post_id \in SqliteIds : UnschedulePostCall(post_id)

SpecJobStore == InitJobStore /\ [][NextJobStore]_vars

\* ------------------------------------------- two timers for one post
\* scheduler_service.schedule_post(post, retry_count) for a stored post that already
\* has a timer under another key: the case the status guard of _publish_post is
\* there for ("if two timers somehow fire for the same logical post"); the call
\* is made before the first timer of the post has fired
SchedulePostAgain(post_id, retry_count) ==
    /\ is_running
    /\ ~load_pending
    /\ ~use_supabase
    /\ db[post_id] # NoPost
    /\ attempts[post_id] = 0
    /\ \E j \in JobsOf(jobs, post_id) : j.args[2] # retry_count
    /\ jobs' = schedule_post(jobs, post_id, db[post_id].scheduled_time, retry_count)
    /\ last' = Op("schedule_again", post_id, retry_count, "ok")
    /\ UNCHANGED <<use_supabase, is_running, load_pending, now, db, supabase, callbacks,
                   restarts, attempts, retry_jobs, streak, published, oauth_vars,
                   service_vars>>

\* the started SQLite service with schedule requests, timers and their callbacks
NextTimers ==
    \/ Tick
    \/ \E offset \in ScheduleOffsets : SchedulePostRequest(offset)
    \/ \E post_id \in SqliteIds : \E retry_count \in JobStoreRetryCounts :
          SchedulePostAgain(post_id, retry_count)
    \/ \E job \in jobs : PublishPostBegin(job)
    \/ \E cb \in callbacks : PublishPostSucceeds(cb)
    \/ \E cb \in callbacks : PublishPostFails(cb)

SpecTimers == InitJobStore /\ [][NextTimers]_vars

\* ------------------------------------------- one run that is never stopped
\* the process starts on a store an earlier run may have written: each row is
\* absent or a post scheduled for the first instant of the clock
InitLive ==
    /\ use_supabase \in BOOLEAN
    /\ is_running = FALSE
    /\ load_pending = FALSE
    /\ now = 0
    /\ db \in [SqliteIds -> {NoPost, NewPost(TickStep)}]
    /\ supabase \in [SupabaseIds -> {NoPost, NewPost(TickStep)}]
    /\ \A i \in SqliteIds : use_supabase => db[i] = NoPost
    /\ \A i \in SupabaseIds : ~use_supabase => supabase[i] = NoPost
    /\ jobs = {}
    /\ callbacks = {}
    /\ restarts = 0
    /\ attempts = [i \in PostIds |-> 0]
    /\ retry_jobs = [i \in PostIds |-> 0]
    /\ streak = [i \in PostIds |-> 0]
    /\ published = [i \in PostIds |-> 0]
    /\ last = NoOp
    /\ InitOAuthTables
    /\ InitServices

\* a publish call returns or raises
PublishPostEnds == \E cb \in callbacks : PublishPostSucceeds(cb) \/ PublishPostFails(cb)

\* the timer of a due job runs its callback
JobFires == \E job \in jobs : PublishPostBegin(job)

NextLive ==
    \/ Start
    \/ Tick
    \/ LoadScheduledPosts
    \/ \E offset \in ScheduleOffsets : SchedulePostRequest(offset)
    \/ \E post_id \in StoreIds : CancelPost(post_id)
    \/ JobFires
    \/ PublishPostEnds

\* the event loop runs every task and timer that is ready, the clock advances, and
\* the HTTP client of publish_post answers or times out
SpecLive ==
    /\ InitLive
    /\ [][NextLive]_vars
    /\ WF_vars(Start)
    /\ WF_vars(LoadScheduledPosts)
    /\ WF_vars(Tick)
    /\ WF_vars(JobFires)
    /\ WF_vars(PublishPostEnds)

\* ------------------------------------------------------- the OAuth router
\* routers/oauth.py: initiate_oauth and oauth_callback.  The repositories call the
\* synchronous Supabase client, so a request gives up the loop only in the token
\* exchange (httpx); oauth_callback is two uninterrupted stretches of code.

\* the state of the scheduler, which the OAuth router leaves alone
scheduler_vars == <<is_running, load_pending, db, supabase, jobs, callbacks, restarts,
                    attempts, retry_jobs, streak, published>>

OAuthOp(name, state, user, platform, result) ==
    [op |-> name, id |-> state, rc |-> 0, result |-> result,
     user |-> user, platform |-> platform]

\* request.platform.lower()
lower(platform) == IF platform = "Twitter" THEN "twitter" ELSE platform

\* OAuthStateRepository.create_state(state, user_id, platform, code_verifier, ttl)
create_state(states, state, user_id, platform, code_verifier, ttl, t) ==
    [states EXCEPT ![state] = [user_id |-> user_id, platform |-> platform,
                               code_verifier |-> code_verifier,
                               expires_at |-> t + ttl]]

\* a stored state whose expires_at has passed
state_expired(states, state, t) ==
    /\ state \in DOMAIN states
    /\ states[state] # NoState
    /\ states[state].expires_at < t

\* OAuthStateRepository.get_state(state): the row, or None for a missing or an
\* expired state
get_state(states, state, t) ==
    IF state \in DOMAIN states /\ ~state_expired(states, state, t)
    THEN states[state] ELSE NoState

\* OAuthStateRepository.delete_state(state)
delete_state(states, state) ==
    IF state \in DOMAIN states THEN [states EXCEPT ![state] = NoState] ELSE states

\* the table after get_state(state): an expired row it finds is deleted
get_state_table(states, state, t) ==
    IF state_expired(states, state, t) THEN delete_state(states, state) ELSE states

\* OAuthStateRepository.cleanup_expired(): delete().lt("expires_at", now)
cleanup_expired(states, t) ==
    [s \in DOMAIN states |-> IF state_expired(states, s, t) THEN NoState ELSE states[s]]

\* initiate_oauth: POST /oauth/initiate
InitiateOAuth(user, request_platform) ==
    /\ LET platform == lower(request_platform)
       IN  IF platform \notin SupportedPlatforms
           THEN /\ last' = OAuthOp("initiate", UnknownState, user, platform, "400")
                /\ UNCHANGED <<oauth_states, issued>>
           ELSE IF ~use_supabase
           THEN /\ last' = OAuthOp("initiate", UnknownState, user, platform, "501")
                /\ UNCHANGED <<oauth_states, issued>>
           ELSE LET state == issued + 1
                    code_verifier == <<"verifier", state>>
                IN  /\ issued < MaxOAuthStates
                    /\ issued' = state
                    /\ oauth_states' = create_state(oauth_states, state, user, platform,
                                                    code_verifier, ttl_seconds, now)
                    /\ last' = OAuthOp("initiate", state, user, platform, "200")
    /\ UNCHANGED <<use_supabase, now, user_secrets, oauth_pending, exchanges, stores,
                   scheduler_vars,
                   service_vars>>

\* variant: the owner of the state is not compared with the caller
state_owner_ok_Any(state_data, user_id) == TRUE

\* if state_data["user_id"] != user.user_id: raise HTTPException(status_code=403)
state_owner_ok(state_data, user_id) == state_data.user_id = user_id

\* variant: the state is left in the table
consume_state_Skipped(states, state) == states

\* await repo.delete_state(state)  (one-time use)
consume_state(states, state) == delete_state(states, state)

\* oauth_callback up to the token exchange: POST /oauth/callback
OAuthCallbackBegin(user, request_platform, state) ==
    /\ LET platform == lower(request_platform)
           state_data == get_state(oauth_states, state, now)
           looked_up == get_state_table(oauth_states, state, now)
       IN  IF ~use_supabase
           THEN /\ last' = OAuthOp("callback", state, user, platform, "501")
                /\ UNCHANGED <<oauth_states, oauth_pending, exchanges>>
           ELSE IF state_data = NoState
           THEN /\ last' = OAuthOp("callback", state, user, platform,
                                  "400 Invalid or expired state")
                /\ oauth_states' = looked_up
                /\ UNCHANGED <<oauth_pending, exchanges>>
           ELSE IF ~state_owner_ok(state_data, user)
           THEN /\ last' = OAuthOp("callback", state, user, platform, "403 State mismatch")
                /\ oauth_states' = looked_up
                /\ UNCHANGED <<oauth_pending, exchanges>>
           ELSE IF state_data.platform # platform
           THEN /\ last' = OAuthOp("callback", state, user, platform,
                                  "400 Platform mismatch")
                /\ oauth_states' = looked_up
                /\ UNCHANGED <<oauth_pending, exchanges>>
           ELSE /\ oauth_states' = consume_state(looked_up, state)
                /\ oauth_pending' = oauth_pending \cup
                       {[user |-> user, platform |-> platform, state |-> state,
                         code_verifier |-> state_data.code_verifier]}
                /\ exchanges' = [exchanges EXCEPT ![state] = @ + 1]
                /\ last' = OAuthOp("callback", state, user, platform, "exchanging")
    /\ UNCHANGED <<use_supabase, now, issued, user_secrets, stores, scheduler_vars,
                   service_vars>>

\* the token endpoint answered: _store_oauth_tokens, then the 200 response
OAuthExchangeSucceeds(c) ==
    /\ c \in oauth_pending
    /\ oauth_pending' = oauth_pending \ {c}
    /\ user_secrets' = [user_secrets EXCEPT ![<<c.user, c.platform>>] = "tokens"]
    /\ stores' = [stores EXCEPT ![c.state] = @ + 1]
    /\ last' = OAuthOp("exchange", c.state, c.user, c.platform, "200")
    /\ UNCHANGED <<use_supabase, now, oauth_states, issued, exchanges, scheduler_vars,
                   service_vars>>

\* the token exchange raised: except Exception -> HTTP 500
OAuthExchangeFails(c) ==
    /\ c \in oauth_pending
    /\ oauth_pending' = oauth_pending \ {c}
    /\ last' = OAuthOp("exchange", c.state, c.user, c.platform, "500")
    /\ UNCHANGED <<use_supabase, now, oauth_states, issued, user_secrets, exchanges,
                   stores, scheduler_vars,
                   service_vars>>

\* cleanup_oauth_states_job, every 5 minutes when USE_SUPABASE
CleanupOAuthStates ==
    /\ is_running
    /\ use_supabase
    /\ oauth_states' = cleanup_expired(oauth_states, now)
    /\ last' = OAuthOp("cleanup", UnknownState, "none", "none", "ok")
    /\ UNCHANGED <<use_supabase, now, issued, user_secrets, oauth_pending, exchanges,
                   stores, scheduler_vars,
                   service_vars>>

\* the clock of the OAuth specification
OAuthTick ==
    /\ now < OAuthTicks * OAuthTickStep
    /\ now' = now + OAuthTickStep
    /\ last' = OAuthOp("tick", UnknownState, "none", "none", "ok")
    /\ UNCHANGED <<use_supabase, oauth_vars, scheduler_vars,
                   service_vars>>

\* the service is started and no post is stored
InitOAuth ==
    /\ use_supabase \in BOOLEAN
    /\ is_running = TRUE
    /\ load_pending = FALSE
    /\ now = 0
    /\ db = [i \in SqliteIds |-> NoPost]
    /\ supabase = [i \in SupabaseIds |-> NoPost]
    /\ jobs = {}
    /\ callbacks = {}
    /\ restarts = 0
    /\ attempts = [i \in PostIds |-> 0]
    /\ retry_jobs = [i \in PostIds |-> 0]
    /\ streak = [i \in PostIds |-> 0]
    /\ published = [i \in PostIds |-> 0]
    /\ last = NoOp
    /\ InitOAuthTables
    /\ InitServices

NextOAuth ==
    \/ \E user \in Users : \E platform \in RequestPlatforms : InitiateOAuth(user, platform)
    \/ \E user \in Users : \E platform \in CallbackPlatforms :
          \E state \in StateTokens \cup {UnknownState} :
             OAuthCallbackBegin(user, platform, state)
    \/ \E c \in oauth_pending : OAuthExchangeSucceeds(c)
    \/ \E c \in oauth_pending : OAuthExchangeFails(c)
    \/ CleanupOAuthStates
    \/ OAuthTick

SpecOAuth == InitOAuth /\ [][NextOAuth]_vars

\* -------------------------------------------------- the draft repository
\* database_supabase.py DraftRepository.update.  One call makes two requests to the
\* database: the select of updated_at and the update.  The table is shared by every
\* writer (a request served by another worker of the API, another device), and the
\* database may serve their requests between the two.
MaxDraftTime == 2       \* the clock of the draft specification stops here
DraftWriters == {"device_a", "device_b"}

\* the base state of the scheduler and of the OAuth router, which the other
\* services leave alone
InitIdle ==
    /\ use_supabase = TRUE
    /\ is_running = TRUE
    /\ load_pending = FALSE
    /\ now = 0
    /\ db = [i \in SqliteIds |-> NoPost]
    /\ supabase = [i \in SupabaseIds |-> NoPost]
    /\ jobs = {}
    /\ callbacks = {}
    /\ restarts = 0
    /\ attempts = [i \in PostIds |-> 0]
    /\ retry_jobs = [i \in PostIds |-> 0]
    /\ streak = [i \in PostIds |-> 0]
    /\ published = [i \in PostIds |-> 0]
    /\ last = NoOp
    /\ InitOAuthTables
    /\ InitServices

\* the row the database keeps after a write: updated_at is set by the database
server_write(data, t) == [content |-> data, updated_at |-> t]

\* if server_updated_at > client_updated_at: raise ConflictError
update_conflict(server_updated_at, client_updated_at) ==
    server_updated_at > client_updated_at

\* DraftRepository.create
DraftCreate(writer, draft_id) ==
    /\ drafts[draft_id] = NoDraft
    /\ drafts' = [drafts EXCEPT ![draft_id] = server_write(<<writer, now>>, now)]
    /\ last' = Op("draft_create", draft_id, now, "ok")
    /\ UNCHANGED <<use_supabase, now, draft_updates, scheduler_vars, oauth_vars,
                   llama_vars, sync_vars, cache_vars>>

\* DraftRepository.update(draft_id, user_id, data, client_updated_at) up to the
\* end of the conflict check
DraftUpdateCheck(writer, draft_id, client_updated_at) ==
    /\ ~\E u \in draft_updates : u.writer = writer
    /\ client_updated_at <= now
    /\ LET existing == drafts[draft_id]
       IN  IF existing = NoDraft
           THEN /\ last' = Op("draft_update", draft_id, client_updated_at, "not_found")
                /\ UNCHANGED draft_updates
           ELSE IF update_conflict(existing.updated_at, client_updated_at)
           THEN /\ last' = Op("draft_update", draft_id, client_updated_at, "conflict")
                /\ UNCHANGED draft_updates
           ELSE /\ draft_updates' = draft_updates \cup
                       {[writer |-> writer, draft_id |-> draft_id,
                         data |-> <<writer, now>>,
                         client_updated_at |-> client_updated_at]}
                /\ last' = Op("draft_update", draft_id, client_updated_at, "checked")
    /\ UNCHANGED <<use_supabase, now, drafts, scheduler_vars, oauth_vars, llama_vars,
                   sync_vars, cache_vars>>

\* the rest of DraftRepository.update: .update(update_data).eq("id", draft_id)
DraftUpdateWrite(u) ==
    /\ u \in draft_updates
    /\ draft_updates' = draft_updates \ {u}
    /\ IF drafts[u.draft_id] = NoDraft
       THEN /\ last' = Op("draft_update", u.draft_id, u.client_updated_at, "not_found")
            /\ UNCHANGED drafts
       ELSE /\ drafts' = [drafts EXCEPT ![u.draft_id] = server_write(u.data, now)]
            /\ last' = Op("draft_update", u.draft_id, u.client_updated_at, "written")
    /\ UNCHANGED <<use_supabase, now, scheduler_vars, oauth_vars, llama_vars, sync_vars,
                   cache_vars>>

\* DraftRepository.delete
DraftDelete(draft_id) ==
    /\ drafts[draft_id] # NoDraft
    /\ drafts' = [drafts EXCEPT ![draft_id] = NoDraft]
    /\ last' = Op("draft_delete", draft_id, 0, "ok")
    /\ UNCHANGED <<use_supabase, now, draft_updates, scheduler_vars, oauth_vars,
                   llama_vars, sync_vars, cache_vars>>

\* the clock of the draft specification
DraftTick ==
    /\ now < MaxDraftTime
    /\ now' = now + 1
    /\ last' = Op("tick", 0, 0, "ok")
    /\ UNCHANGED <<use_supabase, scheduler_vars, oauth_vars, service_vars>>

NextDrafts ==
    \/ \E writer \in DraftWriters : \E draft_id \in DraftIds : DraftCreate(writer, draft_id)
    \/ \E writer \in DraftWriters : \E draft_id \in DraftIds :
          \E client_updated_at \in 0..MaxDraftTime :
             DraftUpdateCheck(writer, draft_id, client_updated_at)
    \/ \E u \in draft_updates : DraftUpdateWrite(u)
    \/ \E draft_id \in DraftIds : DraftDelete(draft_id)
    \/ DraftTick

SpecDrafts == InitIdle /\ [][NextDrafts]_vars

\* ------------------------------------------- the llama.cpp server manager
\* services/llama_server_manager.py: start_server, stop_server and the health
\* monitor (_monitor_health, _can_restart).  process is "none" (self.process is
\* None), "running" (poll() is None) or "exited" (poll() is not None).
MaxMonitorCycles == 7   \* health checks made
MaxLlamaTime == 7300    \* the clock of the server manager stops here

max_restarts_per_hour == 5
health_check_interval == 30
one_hour == 3600
IdleCycles == 115       \* a long stretch of health checks that find nothing to do
StartOutcomes == {"running", "exited", "not_started"}

\* the restart_history that _can_restart keeps: entries younger than one hour
recent_restarts(history, t) == SelectSeq(history, LAMBDA rt : t - rt < one_hour)

\* variant: one more restart is allowed
can_restart_Inclusive(history, t) ==
    Len(recent_restarts(history, t)) <= max_restarts_per_hour

\* _can_restart(): not (len(self.restart_history) >= self.max_restarts_per_hour)
can_restart(history, t) == Len(recent_restarts(history, t)) < max_restarts_per_hour

\* self.process after start_server: a Popen that runs, a Popen that exited during
\* the two seconds start_server waits, or no new Popen (model or binary missing)
started_process(outcome, old) == IF outcome = "not_started" THEN old ELSE outcome

\* start_server(model_name), called through POST /server/start
StartServer(outcome) ==
    /\ IF process = "running"
       THEN /\ last' = Op("start_server", 0, 0, "already_running")
            /\ UNCHANGED <<process, model_name, monitor_task>>
       ELSE /\ process' = started_process(outcome, process)
            /\ model_name' = IF outcome = "running" THEN "model" ELSE model_name
            /\ monitor_task' = (monitor_task \/ outcome = "running")
            /\ last' = Op("start_server", 0, 0, outcome)
    /\ UNCHANGED <<use_supabase, now, restart_history, restart_attempts, monitor_cycles,
                   scheduler_vars, oauth_vars, draft_vars, sync_vars, cache_vars>>

\* stop_server(): the monitor is cancelled; a managed process is stopped and
\* model_name cleared with it
StopServer ==
    /\ monitor_task' = FALSE
    /\ process' = "none"
    /\ model_name' = IF process # "none" THEN "none" ELSE model_name
    /\ last' = Op("stop_server", 0, 0, "ok")
    /\ UNCHANGED <<use_supabase, now, restart_history, restart_attempts, monitor_cycles,
                   scheduler_vars, oauth_vars, draft_vars, sync_vars, cache_vars>>

\* the llama-server process exits
ServerCrash ==
    /\ process = "running"
    /\ process' = "exited"
    /\ last' = Op("crash", 0, 0, "ok")
    /\ UNCHANGED <<use_supabase, now, model_name, restart_history, monitor_task,
                   restart_attempts, monitor_cycles, scheduler_vars, oauth_vars,
                   draft_vars, sync_vars, cache_vars>>

\* IdleCycles health checks pass in which the monitor, if any, has nothing to do
LlamaIdle ==
    /\ ~monitor_task \/ model_name = "none" \/ process # "exited"
    /\ now + IdleCycles * health_check_interval <= MaxLlamaTime
    /\ now' = now + IdleCycles * health_check_interval
    /\ last' = Op("idle", 0, 0, "ok")
    /\ UNCHANGED <<use_supabase, scheduler_vars, oauth_vars, service_vars>>

\* one turn of the loop of _monitor_health: sleep, check, and the auto-restart
\* with the outcome of its start_server call (the two seconds start_server waits
\* only lengthen the turn and are not counted)
MonitorCycle(outcome) ==
    /\ monitor_task
    /\ monitor_cycles < MaxMonitorCycles
    /\ now + health_check_interval <= MaxLlamaTime
    /\ monitor_cycles' = monitor_cycles + 1
    /\ LET t == now + health_check_interval
       IN  IF model_name = "none"
           THEN /\ now' = t
                /\ last' = Op("monitor", 0, 0, "no_model")
                /\ UNCHANGED <<process, model_name, restart_history, restart_attempts>>
           ELSE IF process # "exited"
           THEN /\ now' = t
                /\ last' = Op("monitor", 0, 0,
                              IF process = "running" THEN "healthy" ELSE "no_process")
                /\ UNCHANGED <<process, model_name, restart_history, restart_attempts>>
           ELSE IF ~can_restart(restart_history, t)
           THEN /\ now' = t
                /\ process' = "none"
                /\ model_name' = "none"
                /\ restart_history' = recent_restarts(restart_history, t)
                /\ last' = Op("monitor", 0, 0, "rate_limited")
                /\ UNCHANGED restart_attempts
           ELSE /\ restart_history' = Append(recent_restarts(restart_history, t), t)
                /\ restart_attempts' = restart_attempts \cup {t}
                /\ process' = started_process(outcome, "none")
                /\ now' = t
                /\ last' = Op("monitor", 0, 0,
                              IF outcome = "running" THEN "restarted" ELSE "restart_failed")
                /\ UNCHANGED model_name
    /\ UNCHANGED <<use_supabase, monitor_task, scheduler_vars, oauth_vars, draft_vars,
                   sync_vars, cache_vars>>

NextLlama ==
    \/ \E outcome \in StartOutcomes : StartServer(outcome)
    \/ StopServer
    \/ ServerCrash
    \/ LlamaIdle
    \/ \E outcome \in StartOutcomes : MonitorCycle(outcome)

SpecLlama == InitIdle /\ [][NextLlama]_vars

\* --------------------------------------------------------------- sync_push
\* routers/sync.py: sync_push and the two _process_*_change functions.  A change is
\* [entity_type, action, entity_id]; the entity_id of the i-th change is i.  What
\* the repositories answer is an input of each turn of the loop.
MaxChanges == 3         \* length of request.changes

ChangeKinds ==
    {<<"draft", "create">>, <<"draft", "update">>, <<"draft", "delete">>,
     <<"scheduled_post", "create">>, <<"draft", "merge">>, <<"note", "create">>}

\* what the first repository call of a change does, and what the call that follows
\* a duplicate key or a conflict does
RepoOutcomes == {"ok", "duplicate", "ConflictError", "ValueError", "Exception"}
FollowUpOutcomes == {"ok", "ConflictError", "ValueError"}

ChangeLists ==
    UNION {[1..n -> ChangeKinds] : n \in 0..MaxChanges}

\* the id of a scheduled post the server created
ServerPostId(i) == 100 + i

\* _process_draft_change: the status of the result, or "raise"
process_draft_change(action, outcome, follow_up) ==
    CASE action = "create" ->
            IF outcome = "ok" THEN "success"
            ELSE IF outcome = "duplicate"
            THEN (CASE follow_up = "ok" -> "success"
                    [] follow_up = "ConflictError" -> "conflict"
                    [] OTHER -> "raise")
            ELSE "raise"
      [] action = "update" ->
            (CASE outcome = "ok" -> "success"
               [] outcome = "ConflictError" ->
                     IF follow_up = "ok" THEN "conflict" ELSE "raise"
               [] outcome = "ValueError" -> "error"
               [] OTHER -> "raise")
      [] action = "delete" ->
            IF outcome = "ok" THEN "success" ELSE "raise"
      [] OTHER -> "error"

\* _process_scheduled_post_change
process_scheduled_post_change(action, outcome) ==
    CASE action = "create" -> IF outcome = "ok" THEN "success" ELSE "error"
      [] action = "update" ->
            (CASE outcome = "ok" -> "success"
               [] outcome = "ValueError" -> "error"
               [] OTHER -> "raise")
      [] action = "delete" -> IF outcome = "ok" THEN "success" ELSE "raise"
      [] OTHER -> "error"

\* the body of the try block of sync_push up to `result = ...`
process_change(change, outcome, follow_up) ==
    CASE change.entity_type = "draft" ->
            process_draft_change(change.action, outcome, follow_up)
      [] change.entity_type = "scheduled_post" ->
            process_scheduled_post_change(change.action, outcome)
      [] OTHER -> "error"

\* the entity_id of a result
result_entity_id(change, status) ==
    IF change.entity_type = "scheduled_post" /\ change.action = "create"
       /\ status = "success"
    THEN ServerPostId(change.entity_id) ELSE change.entity_id

\* variant: a change whose processing raised gets no result
after_exception_NoResult(rs, change) == rs

\* except Exception as e: results.append(SyncPushResult(..., status="error", ...))
after_exception(rs, change) ==
    Append(rs, [entity_id |-> change.entity_id, status |-> "error"])

\* a POST /sync/push request arrives
SyncPushRequest(kinds) ==
    /\ use_supabase
    /\ last = NoOp
    /\ changes' = [i \in DOMAIN kinds |->
                      [entity_type |-> kinds[i][1], action |-> kinds[i][2], entity_id |-> i]]
    /\ last' = Op("sync_push", Len(kinds), 0, "serving")
    /\ UNCHANGED <<use_supabase, now, results, success_count, conflict_count, error_count,
                   scheduler_vars, oauth_vars, draft_vars, llama_vars, cache_vars>>

\* one turn of `for change in request.changes`
SyncPushStep(outcome, follow_up) ==
    /\ last.op = "sync_push"
    /\ last.result = "serving"
    /\ last.rc < Len(changes)
    /\ LET change == changes[last.rc + 1]
           status == process_change(change, outcome, follow_up)
       IN  IF status = "raise"
           THEN /\ results' = after_exception(results, change)
                /\ error_count' = error_count + 1
                /\ UNCHANGED <<success_count, conflict_count>>
           ELSE /\ results' = Append(results,
                                     [entity_id |-> result_entity_id(change, status),
                                      status |-> status])
                /\ success_count' = success_count + (IF status = "success" THEN 1 ELSE 0)
                /\ conflict_count' = conflict_count + (IF status = "conflict" THEN 1 ELSE 0)
                /\ error_count' =
                      error_count + (IF status \notin {"success", "conflict"} THEN 1 ELSE 0)
    /\ last' = Op("sync_push", last.id, last.rc + 1, "serving")
    /\ UNCHANGED <<use_supabase, now, changes, scheduler_vars, oauth_vars, draft_vars,
                   llama_vars, cache_vars>>

\* return SyncPushResponse(results=results, ...)
SyncPushReturn ==
    /\ last.op = "sync_push"
    /\ last.result = "serving"
    /\ last.rc = Len(changes)
    /\ last' = Op("sync_push", last.id, last.rc, "200")
    /\ UNCHANGED <<use_supabase, now, scheduler_vars, oauth_vars, service_vars>>

NextSync ==
    \/ \E kinds \in ChangeLists : SyncPushRequest(kinds)
    \/ \E outcome \in RepoOutcomes : \E follow_up \in FollowUpOutcomes :
          SyncPushStep(outcome, follow_up)
    \/ SyncPushReturn

SpecSync == InitIdle /\ [][NextSync]_vars

\* ------------------------------------------------------ LLM response cache
\* services/llm_service.py: LLMService._cache is a dict, which keeps the order of
\* first insertion; an entry is [key, expiry_time], the cached text plays no part.
\* Keys are numbers; call number n of _set_cached_content can bring the new key n.
MaxSingleSets == 3      \* calls of _set_cached_content made one at a time
MaxCacheTicks == 2      \* steps of the clock
MaxExpired == 2         \* entries removed by _get_cached_content
BurstSize == 998        \* calls of _set_cached_content made in one burst

_max_cache_size == 1000
cache_ttl == 86400
CacheTickStep == cache_ttl \div 2 + 1

cache_keys(c) == {c[i].key : i \in DOMAIN c}
has_key(c, key) == \E i \in DOMAIN c : c[i].key = key
cache_index(c, key) == CHOOSE i \in DOMAIN c : c[i].key = key

\* sorted(self._cache.items(), key=lambda x: x[1][1]), as <<position in the
\* dict, entry>>: the sort is stable, so of two entries that expire at the same
\* time the one inserted earlier comes first
sorted_items(c) ==
    SortSeq([i \in DOMAIN c |-> <<i, c[i]>>],
            LAMBDA p, q : \/ p[2].expiry_time < q[2].expiry_time
                          \/ p[2].expiry_time = q[2].expiry_time /\ p[1] < q[1])

\* variant: nothing is removed
to_remove_None(n) == 0

\* to_remove = len(sorted_items) // 10
to_remove(n) == n \div 10

\* for key, _ in sorted_items[:to_remove]: del self._cache[key]
remove_oldest(c) ==
    LET items == sorted_items(c)
        removed == {items[k][2].key : k \in 1..to_remove(Len(items))}
    IN  SelectSeq(c, LAMBDA e : e.key \notin removed)

\* self._cache[cache_key] = (content, expiry_time): a new key goes to the end, a
\* key of the dict keeps its place
dict_set(c, key, expiry_time) ==
    IF has_key(c, key)
    THEN [c EXCEPT ![cache_index(c, key)].expiry_time = expiry_time]
    ELSE Append(c, [key |-> key, expiry_time |-> expiry_time])

\* del self._cache[cache_key]
dict_del(c, key) == SelectSeq(c, LAMBDA e : e.key # key)

\* _set_cached_content at time t
set_cached_content(c, key, t) ==
    dict_set(IF Len(c) >= _max_cache_size THEN remove_oldest(c) ELSE c, key, t + cache_ttl)

\* n calls of _set_cached_content at time t with the new keys key, key + 1, ...:
\* the first half of the calls, then the rest on the cache they leave.  Len(c) is
\* taken first, so that c is a value before the next calls are evaluated.
RECURSIVE set_cached_contents(_, _, _, _)
set_cached_contents(c, key, n, t) ==
    IF Len(c) >= 0 /\ n = 0 THEN c
    ELSE IF n = 1 THEN set_cached_content(c, key, t)
    ELSE set_cached_contents(set_cached_contents(c, key, n \div 2, t),
                             key + n \div 2, n - n \div 2, t)

\* history: the calls made one at a time (fewer than BurstSize)
single_sets == cache_sets % BurstSize

\* the keys a request can bring: a new one, or the one of the first entry
SetKeys == {cache_sets + 1} \cup (IF cache = <<>> THEN {} ELSE {cache[1].key})

\* the keys looked up: the first and the last entry, and a key never set
GetKeys == {0} \cup (IF cache = <<>> THEN {} ELSE {cache[1].key, cache[Len(cache)].key})

\* _set_cached_content(cache_key, content)
CacheSet(key) ==
    /\ single_sets < MaxSingleSets
    /\ cache' = set_cached_content(cache, key, now)
    /\ cache_sets' = cache_sets + 1
    /\ last' = Op("cache_set", key, now + cache_ttl, "ok")
    /\ UNCHANGED <<use_supabase, now, cache_expired, scheduler_vars, oauth_vars, draft_vars,
                   llama_vars, sync_vars>>

\* the first BurstSize requests of the service, with new keys, one after the
\* other at one instant
CacheSetBurst ==
    /\ cache_sets = 0
    /\ cache' = set_cached_contents(cache, cache_sets + 1, BurstSize, now)
    /\ cache_sets' = cache_sets + BurstSize
    /\ last' = Op("cache_set", cache_sets + BurstSize, now + cache_ttl, "ok")
    /\ UNCHANGED <<use_supabase, now, cache_expired, scheduler_vars, oauth_vars, draft_vars,
                   llama_vars, sync_vars>>

\* _get_cached_content(cache_key); last.rc is the expiry time found, last.result
\* what is returned
CacheGet(key) ==
    /\ cache_expired < MaxExpired
    /\ IF ~has_key(cache, key)
       THEN /\ last' = Op("cache_get", key, NoTime, "None")
            /\ UNCHANGED <<cache, cache_expired>>
       ELSE LET expiry_time == cache[cache_index(cache, key)].expiry_time
            IN  IF now > expiry_time
                THEN /\ cache' = dict_del(cache, key)
                     /\ cache_expired' = cache_expired + 1
                     /\ last' = Op("cache_get", key, expiry_time, "None")
                ELSE /\ last' = Op("cache_get", key, expiry_time, "content")
                     /\ UNCHANGED <<cache, cache_expired>>
    /\ UNCHANGED <<use_supabase, now, cache_sets, scheduler_vars, oauth_vars, draft_vars,
                   llama_vars, sync_vars>>

\* time passes
CacheTick ==
    /\ now + CacheTickStep <= MaxCacheTicks * CacheTickStep
    /\ now' = now + CacheTickStep
    /\ last' = Op("tick", 0, 0, "ok")
    /\ UNCHANGED <<use_supabase, scheduler_vars, oauth_vars, service_vars>>

NextCache ==
    \/ \E key \in SetKeys : CacheSet(key)
    \/ CacheSetBurst
    \/ \E key \in GetKeys : CacheGet(key)
    \/ CacheTick

SpecCache == InitIdle /\ [][NextCache]_vars

\* ======================================================== properties
RetryCounts == 0..max_retries

\* the job schedule_post(post, k) registers for a row
JobFor(post_id, k, row) ==
    [id |-> JobId(post_id, k), run_date |-> row.scheduled_time, args |-> <<post_id, k>>]

\* ---------------------------------------------------------------- C1
\* C1 as stated: after exactly max_retries (3) consecutive failed fire events,
\* counted from the job registered at retry_count 0, the post is failed and no
\* job for it remains registered.
C1_FailedAfterMaxRetriesFailures ==
    \A p \in SqliteIds :
        streak[p] = max_retries => db[p].status = "failed" /\ JobsOf(jobs, p) = {}

\* C1 amended: the post is failed, with no job registered for it, after exactly
\* max_retries + 1 (4) consecutive failed fire events counted from the job
\* registered at retry_count 0, and not before.
C1_FailedAfterMaxRetriesPlusOneFailures ==
    \A p \in SqliteIds :
        /\ streak[p] <= max_retries + 1
        /\ streak[p] = max_retries + 1 => db[p].status = "failed" /\ JobsOf(jobs, p) = {}
        /\ db[p].status = "failed" => streak[p] = max_retries + 1

C1_Witness ==
    \E p \in SqliteIds :
        /\ last = Op("failed", p, max_retries, "ok")
        /\ streak[p] = max_retries + 1
        /\ db[p].status = "failed"

\* ---------------------------------------------------------------- C2
\* C2: cancelling a scheduled post whose pending job is post_{id}_{k} removes that
\* job from the scheduler and leaves the jobs of every other post id unchanged.
C2_CancelRemovesExactlyOneJob ==
    [][\A p \in SqliteIds : \A k \in RetryCounts :
          (/\ last' = Op("cancel", p, 0, "200")
           /\ db[p].status = "scheduled"
           /\ \E j \in jobs : j.id = JobId(p, k))
          => /\ ~\E j \in jobs' : j.id = JobId(p, k)
             /\ \A q \in SqliteIds \ {p} : JobsOf(jobs', q) = JobsOf(jobs, q)]_vars

\* ---------------------------------------------------------------- C3
\* C3: a fire event for a post whose status at load time is posted or cancelled
\* makes no publish call, leaves every row unchanged and registers no job.
C3_IdempotencyGuard ==
    [][\A p \in SqliteIds :
          (/\ last'.op = "fire"
           /\ last'.id = p
           /\ db[p].status \in {"posted", "cancelled"})
          => /\ attempts' = attempts
             /\ callbacks' = callbacks
             /\ db' = db
             /\ supabase' = supabase
             /\ jobs' \subseteq jobs]_vars

C3_Witness ==
    /\ last.op = "fire"
    /\ last.result = "skipped"
    /\ last.id \in SqliteIds
    /\ db[last.id].status = "cancelled"
    /\ callbacks = {}

\* ---------------------------------------------------------------- C4
\* C4: once a post is cancelled, no later step changes its status, posted_at or
\* error_message, whatever callback is in flight.
C4_CancelledIsTerminal ==
    [][\A p \in SqliteIds :
          db[p].status = "cancelled"
          => /\ db'[p].status = "cancelled"
             /\ db'[p].posted_at = db[p].posted_at
             /\ db'[p].error_message = db[p].error_message]_vars

\* ---------------------------------------------------------------- C5
\* the posts of the deployment's store that are scheduled with a scheduled_time
\* later than now
FutureScheduled ==
    IF use_supabase
    THEN {p \in SupabaseIds :
              supabase[p].status = "scheduled" /\ supabase[p].scheduled_time > now}
    ELSE {p \in SqliteIds : db[p].status = "scheduled" /\ db[p].scheduled_time > now}

StoreRow(p) == IF use_supabase THEN supabase[p] ELSE db[p]

\* C5: one run of _load_scheduled_posts registers exactly the scheduled posts whose
\* scheduled_time is in the future, each under post_{id}_0 with retry_count 0 and
\* its scheduled_time as fire time, and no other post, with either store.
C5_RecoveryCompleteness ==
    last.op = "load" =>
        /\ jobs = {JobFor(p, 0, StoreRow(p)) : p \in FutureScheduled}
        /\ Cardinality(jobs) = Cardinality(FutureScheduled)

C5_Witness ==
    /\ last.op = "load"
    /\ ~use_supabase
    /\ \E p \in SqliteIds : \E q \in SqliteIds :
          /\ db[p].status = "scheduled" /\ db[p].scheduled_time > now
          /\ db[q].status = "scheduled" /\ db[q].scheduled_time <= now
          /\ jobs = {JobFor(p, 0, db[p])}

\* ---------------------------------------------------------------- C6
DelayTable(k) == CASE k = 0 -> 300 [] k = 1 -> 900 [] k = 2 -> 3600 [] OTHER -> 0

\* C6: a failed fire event with retry_count in [0, max_retries) uses the delay
\* 300, 900, 3600 s for retry_count 0, 1, 2 and a retry_time = now + delay > now.
C6_BackoffDelay ==
    last.op = "retry" =>
        LET row == db[last.id]
            delay == DelayTable(last.rc)
        IN  /\ last.rc \in 0..(max_retries - 1)
            /\ delay = retry_delays[Min(last.rc, Len(retry_delays) - 1) + 1]
            /\ row.error_message[3] = delay
            /\ row.scheduled_time = now + delay
            /\ row.scheduled_time > now

C6_Witness ==
    /\ last.op = "retry"
    /\ last.rc = max_retries - 1
    /\ db[last.id].scheduled_time = now + 3600

\* ---------------------------------------------------------------- C7
\* C7: a fire event whose publish call succeeds ends with status posted, posted_at
\* the current time and error_message None, and with no job registered for the post.
C7_SuccessClearsError ==
    last.op = "posted" =>
        /\ db[last.id].status = "posted"
        /\ db[last.id].posted_at = now
        /\ db[last.id].error_message = NoMessage
        /\ JobsOf(jobs, last.id) = {}

C7_Witness ==
    /\ last.op = "posted"
    /\ last.rc > 0
    /\ streak[last.id] > 0
    /\ db[last.id].status = "posted"
    /\ db[last.id].error_message = NoMessage

\* ---------------------------------------------------------------- C8
\* C8: a failed fire event with retry_count < max_retries persists status
\* scheduled, scheduled_time = retry_time and an error_message naming attempt
\* retry_count + 1, and leaves exactly one job for the post: post_{id}_{retry_count+1},
\* firing at the persisted scheduled_time, with args (id, retry_count + 1).
C8_RetryStep ==
    last.op = "retry" =>
        LET row == db[last.id]
        IN  /\ row.status = "scheduled"
            /\ row.scheduled_time = now + RetryDelay(last.rc)
            /\ row.error_message[1] = "attempt"
            /\ row.error_message[2] = last.rc + 1
            /\ JobsOf(jobs, last.id) = {JobFor(last.id, last.rc + 1, row)}

\* ---------------------------------------------------------------- C9
\* C9: over its lifetime, restarts included, a post gets at most max_retries retry
\* jobs and at most max_retries + 1 publish attempts.
C9_BoundedRetries ==
    \A p \in SqliteIds :
        /\ retry_jobs[p] <= max_retries
        /\ attempts[p] <= max_retries + 1

\* ---------------------------------------------------------------- C10
\* the status changes the claim allows (absent -> scheduled is the creation)
AllowedTransition(from, to) ==
    \/ from = to
    \/ from = "absent" /\ to = "scheduled"
    \/ from = "scheduled" /\ to \in {"posted", "failed", "cancelled"}

\* C10: a failed post keeps its status and gets no job, and the only status changes
\* of any post are scheduled -> posted, scheduled -> failed, scheduled -> cancelled.
C10_FailedIsTerminal ==
    [][\A p \in SqliteIds :
          /\ db[p].status = "failed"
                => db'[p].status = "failed" /\ JobsOf(jobs', p) = {}
          /\ AllowedTransition(db[p].status, db'[p].status)]_vars

\* ---------------------------------------------------------------- C11
\* C11: cancel_post answers 200 and sets the post to cancelled exactly when the
\* post's status is scheduled; it answers 400 for a posted, failed or cancelled
\* post and 404 for an unknown id, and then changes no row and no job.
C11_CancelOnlyScheduled ==
    [][\A p \in StoreIds :
          (last'.op = "cancel" /\ last'.id = p)
          => LET row == IF use_supabase THEN supabase[p] ELSE db[p]
                 row_after == IF use_supabase THEN supabase'[p] ELSE db'[p]
             IN  /\ last'.result \in {"200", "400", "404"}
                 /\ last'.result = "200" <=> row.status = "scheduled"
                 /\ last'.result = "200" => row_after.status = "cancelled"
                 /\ last'.result = "400" <=> row.status \in {"posted", "failed", "cancelled"}
                 /\ last'.result = "404" <=> row = NoPost
                 /\ last'.result \in {"400", "404"}
                       => db' = db /\ supabase' = supabase /\ jobs' = jobs]_vars

C11_Witness ==
    /\ last.op = "cancel"
    /\ last.result = "400"
    /\ last.id \in SqliteIds
    /\ db[last.id].status = "posted"
    /\ JobsOf(jobs, last.id) = {}

\* ---------------------------------------------------------------- C12
\* C12: no step decreases the persisted scheduled_time of a post, and the job a
\* failed attempt of generation k registers for generation k + 1 fires strictly
\* later than the job of generation k did.
C12_ForwardOnlyTime ==
    [][/\ \A p \in SqliteIds :
             db[p] # NoPost => db'[p].scheduled_time >= db[p].scheduled_time
       /\ \A p \in SupabaseIds :
             supabase[p] # NoPost
                => supabase'[p].scheduled_time >= supabase[p].scheduled_time
       /\ \A cb \in callbacks :
             (last'.op = "retry" /\ cb \notin callbacks')
             => \E j \in jobs' :
                   /\ j.id = JobId(cb.post_id, cb.retry_count + 1)
                   /\ j.run_date > cb.run_date]_vars

C12_Witness ==
    /\ last.op = "retry"
    /\ last.rc = 1
    /\ \E j \in jobs :
          /\ j.id = JobId(last.id, 2)
          /\ j.run_date = db[last.id].scheduled_time
          /\ j.run_date > now

\* ---------------------------------------------------------------- C13
\* C13: after schedule_post(post, k) the scheduler holds exactly one job with key
\* post_{id}_{k}, with args (id, k) and fire time post.scheduled_time, also when a
\* job with that key was there before; no two jobs ever share a key.
C13_OneJobPerKey ==
    /\ \A j1 \in jobs : \A j2 \in jobs : j1.id = j2.id => j1 = j2
    /\ last.op = "schedule_post"
          => {j \in jobs : j.id = JobId(last.id, last.rc)}
                = {JobFor(last.id, last.rc, db[last.id])}

C13_Witness ==
    /\ last.op = "schedule_post"
    /\ last.result = "replaced"
    /\ Cardinality({j \in jobs : j.id = JobId(last.id, last.rc)}) = 1
    /\ Cardinality(JobsOf(jobs, last.id)) = 2

\* ---------------------------------------------------------------- C14
\* C14: unschedule_post for a post id that has no job raises nothing and leaves the
\* job set and every row as they were.
C14_UnscheduleMissingIsNoOp ==
    [][\A p \in SqliteIds :
          (last'.op = "unschedule_post" /\ last'.id = p /\ JobsOf(jobs, p) = {})
          => /\ last'.result = "ok"
             /\ jobs' = jobs
             /\ db' = db
             /\ supabase' = supabase]_vars

C14_Witness ==
    /\ last.op = "unschedule_post"
    /\ last.result = "ok"
    /\ JobsOf(jobs, last.id) = {}
    /\ jobs # {}

\* ---------------------------------------------------------------- C15
\* C15: a fire event for a post id without a row in the table _publish_post reads
\* takes the NotFound exit: no publish call, no row changed, no job registered.
C15_NotFoundNoEffect ==
    [][\A job \in jobs :
          (/\ last'.op = "fire"
           /\ last'.id = job.args[1]
           /\ last'.rc = job.args[2]
           /\ job \notin jobs'
           /\ find_post(db, job.args[1]) = NoPost)
          => /\ last'.result = "not_found"
             /\ attempts' = attempts
             /\ callbacks' = callbacks
             /\ db' = db
             /\ supabase' = supabase
             /\ jobs' = jobs \ {job}]_vars

C15_Witness ==
    /\ last.op = "fire"
    /\ last.result = "not_found"
    /\ find_post(db, last.id) = NoPost
    /\ attempts[last.id] = 0
    /\ JobsOf(jobs, last.id) = {}

\* ---------------------------------------------------------------- C16
\* C16: when the storage query of _load_scheduled_posts fails, the call returns
\* without raising, registers no job and leaves the scheduler running, with the
\* SQLite store as with the Supabase store.
C16_LoadFailureHandled ==
    last.op = "load_failed" =>
        /\ last.result = "returned"
        /\ jobs = {}
        /\ is_running

\* ---------------------------------------------------------------- C17
\* C17: stop() on a running service clears is_running, removes every pending timer
\* and changes no row; start() on a running service and stop() on a stopped one
\* change nothing; an effective start() leaves exactly one reconciler run pending.
C17_Lifecycle ==
    [][/\ last'.op = "stop"
             => /\ ~is_running'
                /\ db' = db
                /\ supabase' = supabase
                /\ IF is_running
                   THEN last'.result = "ok" /\ jobs' = {}
                   ELSE /\ last'.result = "noop"
                        /\ jobs' = jobs
                        /\ load_pending' = load_pending
                        /\ callbacks' = callbacks
       /\ last'.op = "start"
             => /\ is_running'
                /\ db' = db
                /\ supabase' = supabase
                /\ jobs' = jobs
                /\ IF is_running
                   THEN /\ last'.result = "noop"
                        /\ load_pending' = load_pending
                        /\ callbacks' = callbacks
                   ELSE /\ last'.result = "ok"
                        /\ ~load_pending
                        /\ load_pending']_vars

C17_Witness ==
    /\ last = Op("stop", 0, 0, "ok")
    /\ ~is_running
    /\ jobs = {}
    /\ \E p \in SqliteIds : db[p].status = "scheduled" /\ db[p].scheduled_time > now

C19_StateOneTimeUse ==
    \A s \in StateTokens :
        /\ exchanges[s] <= 1
        /\ stores[s] <= exchanges[s]
        /\ exchanges[s] >= 1 => oauth_states[s] = NoState
        /\ \A c \in oauth_pending : c.state = s => oauth_states[s] = NoState
        /\ (/\ last.op = "callback"
            /\ last.id = s
            /\ exchanges[s] >= 1
            /\ last.result # "exchanging")
           => last.result = "400 Invalid or expired state"

C19_Witness ==
    /\ last.op = "callback"
    /\ last.id \in StateTokens
    /\ last.result = "400 Invalid or expired state"
    /\ exchanges[last.id] = 1
    /\ stores[last.id] = 1
    /\ oauth_states[last.id] = NoState

\* ---------------------------------------------------------------- C20
\* the row a callback step looks up, and whether it is stored and unexpired
CallbackRow(state) == IF state \in StateTokens THEN oauth_states[state] ELSE NoState
CallbackRowLive(state) ==
    CallbackRow(state) # NoState /\ ~(CallbackRow(state).expires_at < now)

\* what C20 says of the outcome of a callback step
CallbackOutcome ==
    /\ last'.result = "exchanging"
          <=> /\ CallbackRowLive(last'.id)
              /\ CallbackRow(last'.id).user_id = last'.user
              /\ CallbackRow(last'.id).platform = last'.platform
    /\ last'.result = "400 Invalid or expired state" <=> ~CallbackRowLive(last'.id)
    /\ last'.result = "403 State mismatch"
          <=> CallbackRowLive(last'.id) /\ CallbackRow(last'.id).user_id # last'.user
    /\ last'.result = "400 Platform mismatch"
          <=> /\ CallbackRowLive(last'.id)
              /\ CallbackRow(last'.id).user_id = last'.user
              /\ CallbackRow(last'.id).platform # last'.platform
    /\ last'.result # "exchanging"
          => /\ exchanges' = exchanges
             /\ oauth_pending' = oauth_pending
             /\ user_secrets' = user_secrets
             /\ stores' = stores

\* C20 as stated: oauth_callback starts the exchange only for a stored, unexpired
\* state of the caller and of the requested platform; otherwise it answers 400,
\* 403 or 400, starts no exchange, stores no tokens and no state is deleted.
C20_RejectedCallbackDeletesNothing ==
    [][(last'.op = "callback" /\ use_supabase)
          => /\ CallbackOutcome
             /\ last'.result # "exchanging" => oauth_states' = oauth_states]_vars

\* C20 amended: as above, but only a state that is still valid is left in place;
\* an expired state may be removed by the lookup itself; tokens are stored only
\* by a callback whose exchange was started.
C20_RejectedCallbackKeepsValidState ==
    [][/\ (last'.op = "callback" /\ use_supabase)
             => /\ CallbackOutcome
                /\ last'.result # "exchanging"
                      => \A s \in StateTokens :
                            \/ oauth_states'[s] = oauth_states[s]
                            \/ /\ s = last'.id
                               /\ ~CallbackRowLive(s)
                               /\ oauth_states'[s] = NoState
       /\ user_secrets' # user_secrets
             => /\ last'.op = "exchange"
                /\ \E c \in oauth_pending :
                      c.state = last'.id /\ c.user = last'.user]_vars

C20_Witness ==
    /\ last.op = "callback"
    /\ last.result = "403 State mismatch"
    /\ oauth_states[last.id] # NoState
    /\ oauth_states[last.id].user_id # last.user
    /\ exchanges[last.id] = 0

\* ---------------------------------------------------------------- C21
\* C21: for every post, whatever the interleaving of its fire callbacks, at most
\* one publish call returns successfully, also when two callbacks for the same
\* post are suspended in publish_post at the same time.
C21_NoDoublePosting ==
    \A p \in PostIds : published[p] <= 1

PostRow(p) == IF p \in SqliteIds THEN db[p] ELSE supabase[p]

\* C23: while the process keeps running, jobs fire at their fire time and storage
\* operations succeed, every post that is scheduled and has a registered job
\* eventually has status posted, failed or cancelled.
C23_EventualResolution ==
    \A p \in PostIds :
        (PostRow(p).status = "scheduled" /\ JobsOf(jobs, p) # {})
            ~> (PostRow(p).status \in {"posted", "failed", "cancelled"})

\* ---------------------------------------------------------------- C24
\* the rows that a step changes
ChangedRows == {p \in SqliteIds : db'[p] # db[p]} \cup {p \in SupabaseIds : supabase'[p] # supabase[p]}

\* C24: a fire event that passes the NotFound and status guards commits exactly
\* once: the step that ends its callback (posted, retry or failed) changes the row
\* of its post and no other row, and a callback ends in no other way than by such a
\* step or by stop(), which cancels it; the step that starts the callback and a
\* fire event stopped by a guard change no row.
C24_OneMutationPerFire ==
    [][/\ last'.op = "fire"
             => /\ ChangedRows = {}
                /\ last'.result \in {"not_found", "skipped"} => callbacks' = callbacks
                /\ last'.result = "publishing"
                      => \E cb \in callbacks' :
                            /\ cb \notin callbacks
                            /\ callbacks' = callbacks \cup {cb}
                            /\ cb.post_id = last'.id
       /\ last'.op \in {"posted", "retry", "failed"}
             => \E cb \in callbacks :
                   /\ cb.post_id = last'.id
                   /\ cb.retry_count = last'.rc
                   /\ callbacks' = callbacks \ {cb}
                   /\ ChangedRows = {cb.post_id}
                   /\ last'.op = "posted" => db'[cb.post_id].status = "posted"
                   /\ last'.op = "retry" => db'[cb.post_id].scheduled_time > now
                   /\ last'.op = "failed" => db'[cb.post_id].status = "failed"
       /\ callbacks' # callbacks
             => last'.op \in {"fire", "posted", "retry", "failed", "stop"}]_vars

C24_Witness ==
    /\ last.op = "posted"
    /\ last.rc = 2
    /\ attempts[last.id] = 3
    /\ retry_jobs[last.id] = 2
    /\ published[last.id] = 1
    /\ callbacks = {}

\* ---------------------------------------------------------------- C25
\* C25: with either store, a job registered at retry_count 0 for a persisted post
\* (as the startup reconciler registers it) finds that post's record when it
\* fires: while the record exists in the deployment's store the fire event never
\* takes the NotFound exit.
C25_BackendTransparency ==
    (/\ last.op = "fire"
     /\ last.rc = 0
     /\ last.id \in StoreIds
     /\ StoreRow(last.id) # NoPost)
    => last.result # "not_found"

\* ---------------------------------------------------------------- C26
\* C26: in SQLite mode the scheduler holds at most one job per post id at any
\* time, whatever the retry generation: never post_{id}_{j} and post_{id}_{k}
\* with j # k together; and a post whose callback is running has no job.
C26_OneJobPerPost ==
    ~use_supabase =>
        \A p \in SqliteIds :
            /\ \A j1 \in JobsOf(jobs, p) : \A j2 \in JobsOf(jobs, p) : j1.args[2] = j2.args[2]
            /\ Cardinality(JobsOf(jobs, p)) <= 1
            /\ (\E cb \in callbacks : cb.post_id = p) => JobsOf(jobs, p) = {}

C26_Witness ==
    /\ ~use_supabase
    /\ restarts = 1
    /\ \E p \in SqliteIds :
          /\ JobsOf(jobs, p) = {JobFor(p, 1, db[p])}
          /\ retry_jobs[p] >= 2
          /\ db[p].status = "scheduled"

\* ---------------------------------------------------------------- C27
\* C27: DraftRepository.update with client_updated_at never overwrites a stored
\* version whose updated_at is later than client_updated_at: the call that finds
\* such a version reports a conflict and leaves the draft as it is, and the write
\* of a call that passed the check never lands on a later version, whatever other
\* update is served between its check and its write.
C27_NoOverwriteOfNewerVersion ==
    [][/\ \A d \in DraftIds :
             (last'.op = "draft_update" /\ last'.id = d /\ last'.result \in {"conflict", "checked"})
             => /\ last'.result = "conflict" <=> drafts[d].updated_at > last'.rc
                /\ drafts' = drafts
       /\ \A u \in draft_updates :
             (/\ last'.op = "draft_update"
              /\ last'.result = "written"
              /\ u \notin draft_updates')
             => drafts[u.draft_id].updated_at <= u.client_updated_at]_vars

\* ---------------------------------------------------------------- C28
\* the auto-restart attempts made in the hour that ends at t
AttemptsInHourTo(t) == {a \in restart_attempts : t - a < one_hour /\ a <= t}

\* C28: the health monitor makes at most max_restarts_per_hour (5) auto-restart
\* attempts in any one-hour window; a health check that finds the limit reached
\* clears model_name and makes no attempt, and no attempt is made while model_name
\* is cleared, that is until start_server sets it again.
C28_RestartRateLimit ==
    [][/\ \A t \in restart_attempts' :
             Cardinality({a \in restart_attempts' : t - a < one_hour /\ a <= t})
                <= max_restarts_per_hour
       /\ restart_attempts' # restart_attempts
             => /\ last'.op = "monitor"
                /\ model_name # "none"
                /\ model_name' = model_name
                /\ process = "exited"
                /\ Cardinality(AttemptsInHourTo(now + health_check_interval))
                      < max_restarts_per_hour
       /\ (/\ last'.op = "monitor"
           /\ model_name # "none"
           /\ process = "exited"
           /\ Cardinality(AttemptsInHourTo(now + health_check_interval))
                 >= max_restarts_per_hour)
             => /\ last'.result = "rate_limited"
                /\ model_name' = "none"
                /\ restart_attempts' = restart_attempts
       /\ model_name' # model_name /\ model_name = "none"
             => last'.op = "start_server"]_vars

C28_Witness ==
    /\ last = Op("monitor", 0, 0, "rate_limited")
    /\ model_name = "none"
    /\ Cardinality(restart_attempts) = max_restarts_per_hour
    /\ Len(restart_history) = max_restarts_per_hour

\* ---------------------------------------------------------------- C29
\* the number of results with a status
CountStatus(rs, statuses) == Cardinality({i \in DOMAIN rs : rs[i].status \in statuses})

\* C29: sync_push answers one result per submitted change, in the order of the
\* request, and success_count + conflict_count + error_count is the number of
\* changes, each count being the number of results with that status; this holds
\* for unknown entity types and actions and for changes whose processing raises,
\* after which the later changes are still processed.
C29_OneResultPerChange ==
    last.op = "sync_push" =>
        /\ Len(results) = last.rc
        /\ Len(results) <= Len(changes)
        /\ last.result = "200" => Len(results) = Len(changes)
        /\ \A i \in DOMAIN results :
              /\ results[i].status \in {"success", "conflict", "error"}
              /\ results[i].entity_id \in {changes[i].entity_id, ServerPostId(changes[i].entity_id)}
              /\ changes[i].entity_type = "note" => results[i].status = "error"
              /\ changes[i].action = "merge" => results[i].status = "error"
        /\ success_count = CountStatus(results, {"success"})
        /\ conflict_count = CountStatus(results, {"conflict"})
        /\ error_count = CountStatus(results, {"error"})
        /\ success_count + conflict_count + error_count = Len(results)

C29_Witness ==
    /\ last = Op("sync_push", MaxChanges, MaxChanges, "200")
    /\ changes[1].entity_type = "draft" /\ changes[1].action = "delete"
    /\ results[1].status = "error"
    /\ changes[2].entity_type = "note"
    /\ results[3].status = "success"
    /\ error_count = 2
    /\ success_count = 1

\* ---------------------------------------------------------------- C30
\* C30: after any sequence of _set_cached_content calls the cache holds at most
\* _max_cache_size entries, with no key twice; _get_cached_content returns the
\* content only of an entry whose expiry time has not passed, and when it finds
\* one whose expiry time has passed it returns None and the entry is gone.
C30_CacheBoundedAndFresh ==
    /\ Len(cache) <= _max_cache_size
    /\ Cardinality(cache_keys(cache)) = Len(cache)
    /\ last.op = "cache_get" /\ last.result = "content" =>
          /\ ~(now > last.rc)
          /\ has_key(cache, last.id)
    /\ last.op = "cache_get" /\ last.result = "None" => ~has_key(cache, last.id)
    /\ last.op = "cache_get" /\ last.rc # NoTime /\ now > last.rc => last.result = "None"

\* an expired entry was looked up after the cache had been full and trimmed
C30_Witness ==
    /\ last.op = "cache_get"
    /\ last.result = "None"
    /\ last.rc # NoTime
    /\ now > last.rc
    /\ cache_sets = _max_cache_size + 1
    /\ Len(cache) = _max_cache_size - to_remove(_max_cache_size)
====
